---- MODULE Spec2Model ----
(***************************************************************************)
(* cargo-ghannotate: the run driver of src/main.rs, the Annotation type of *)
(* src/github.rs and the Cargo message types of src/cargo.rs.              *)
(*                                                                         *)
(* Text is modelled as a sequence of one-character strings, so that path   *)
(* parsing, trimming and percent-encoding are computed character by        *)
(* character as the Rust code computes them.  Option<T> is modelled as a   *)
(* sequence of length 0 (None) or 1 (Some).                                *)
(***************************************************************************)
EXTENDS Integers, Sequences, FiniteSets, TLC

VARIABLES
    pc,              \* position of main: "start", "reading", "done", "panicked"
    allow_warnings,  \* cli.allow_warnings
    summary_dest,    \* whether write_summaries resolves a summary path
    lines_read,      \* the lines of cargo.stdout consumed so far (catalogue ids)
    annotations,     \* the BTreeSet of owned annotations
    stdout,          \* the lines written to standard output
    summaries,       \* the Vec<Summary>
    max_annotation,  \* the running maximum AnnotationKind
    summary_file,    \* the summary file: None, or Some(document)
    exit_code,       \* the ExitCode main returns ("NONE" until it returns)
    last_inserted,   \* what the last BTreeSet::insert returned (None outside one)
    r_msg, r_out,    \* rendering harness: a message and its encoded segment
    c_a, c_b, c_ord  \* comparator harness: two annotations and cmp(c_a, c_b)

vars == <<pc, allow_warnings, summary_dest, lines_read, annotations, stdout,
          summaries, max_annotation, summary_file, exit_code, last_inserted,
          r_msg, r_out, c_a, c_b, c_ord>>

mainVars == <<pc, allow_warnings, summary_dest, lines_read, annotations, stdout,
              summaries, max_annotation, summary_file, exit_code, last_inserted>>
renderVars == <<r_msg, r_out>>
cmpVars == <<c_a, c_b, c_ord>>

----------------------------------------------------------------------------
(* Bounds of the model *)

MaxLines == 3
MaxMsgLen == 4
MaxLineNo == 2
MaxColNo == 2

----------------------------------------------------------------------------
(* Option and Ordering *)

None == <<>>
Some(x) == <<x>>

reverse(o) ==
    CASE o = "Less" -> "Greater"
      [] o = "Greater" -> "Less"
      [] OTHER -> "Equal"

IntCmp(x, y) == IF x < y THEN "Less" ELSE IF x > y THEN "Greater" ELSE "Equal"

\* Option<usize>::cmp: None before Some, Some by value
OptCmp(x, y) ==
    IF x = None
    THEN (IF y = None THEN "Equal" ELSE "Less")
    ELSE (IF y = None THEN "Greater" ELSE IntCmp(x[1], y[1]))

\* Ordering::then_with
then_with(o, next) == IF o = "Equal" THEN next ELSE o

----------------------------------------------------------------------------
(* AnnotationKind and DiagnosticLevel *)

AnnotationKinds == {"Notice", "Warning", "Error"}

DiagnosticLevels ==
    {"error", "warning", "note", "help", "failure-note",
     "error: internal compiler error"}

\* discriminant order of the enum, which the derived Ord compares
KindRank(k) ==
    CASE k = "Notice" -> 0
      [] k = "Warning" -> 1
      [] k = "Error" -> 2

KindCmp(k1, k2) == IntCmp(KindRank(k1), KindRank(k2))

KindMax(k1, k2) == IF KindCmp(k2, k1) = "Greater" THEN k2 ELSE k1

\* impl From<DiagnosticLevel> for AnnotationKind
KindFrom(level) ==
    CASE level \in {"error", "error: internal compiler error"} -> "Error"
      [] level = "warning" -> "Warning"
      [] OTHER -> "Notice"

\* #[serde(rename_all = "lowercase")] serialization
KindSerialize(k) ==
    CASE k = "Notice" -> "notice"
      [] k = "Warning" -> "warning"
      [] k = "Error" -> "error"

emoji(k) ==
    CASE k = "Notice" -> ":information_source:"
      [] k = "Warning" -> ":warning:"
      [] k = "Error" -> ":x:"

\* impl Display for AnnotationKind: "{emoji} {self:?}", Debug prints the variant name
KindDisplay(k) == emoji(k) \o " " \o k

----------------------------------------------------------------------------
(* Text: the characters the model uses, in ascending byte (ASCII) order *)

AsciiOrder ==
    <<"\n", "\r", " ", "%", "-", ".", "/", "0", "2", "5", "A", "D",
      "a", "b", "c", "d", "e", "i", "l", "n", "r", "s", "u", "v">>

\* rank of a character in byte order
Byte(c) == CHOOSE i \in 1..Len(AsciiOrder) : AsciiOrder[i] = c

RECURSIVE BytesCmp(_, _)
BytesCmp(s, t) ==
    IF s = <<>> THEN (IF t = <<>> THEN "Equal" ELSE "Less")
    ELSE IF t = <<>> THEN "Greater"
    ELSE then_with(IntCmp(Byte(Head(s)), Byte(Head(t))),
                   BytesCmp(Tail(s), Tail(t)))

----------------------------------------------------------------------------
(* std::path::Path::new(file).components(), Unix rules: a leading "/" is   *)
(* RootDir, empty segments and interior "." segments are dropped, a        *)
(* leading "." is CurDir, ".." is ParentDir, anything else is Normal.      *)

RECURSIVE SplitSlash(_, _)
\* the "/"-separated segments of s, the current one accumulated in cur
SplitSlash(s, cur) ==
    IF s = <<>> THEN <<cur>>
    ELSE IF Head(s) = "/" THEN <<cur>> \o SplitSlash(Tail(s), <<>>)
    ELSE SplitSlash(Tail(s), Append(cur, Head(s)))

RECURSIVE SegComponents(_, _, _)
SegComponents(segs, i, has_root) ==
    IF i > Len(segs) THEN <<>>
    ELSE LET seg == segs[i]
             rest == SegComponents(segs, i + 1, has_root)
         IN  IF seg = <<>> THEN rest
             ELSE IF seg = <<".">>
                  THEN (IF i = 1 /\ ~has_root
                        THEN <<[tag |-> "CurDir", name |-> <<>>]>> \o rest
                        ELSE rest)
             ELSE IF seg = <<".", ".">>
                  THEN <<[tag |-> "ParentDir", name |-> <<>>]>> \o rest
             ELSE <<[tag |-> "Normal", name |-> seg]>> \o rest

components(file) ==
    LET has_root == file # <<>> /\ Head(file) = "/"
        segs == SplitSlash(file, <<>>)
    IN  (IF has_root THEN <<[tag |-> "RootDir", name |-> <<>>]>> ELSE <<>>)
        \o SegComponents(segs, 1, has_root)

\* variant order of std::path::Component, which its derived Ord compares
ComponentRank(c) ==
    CASE c.tag = "RootDir" -> 1
      [] c.tag = "CurDir" -> 2
      [] c.tag = "ParentDir" -> 3
      [] c.tag = "Normal" -> 4

ComponentCmp(c1, c2) ==
    then_with(IntCmp(ComponentRank(c1), ComponentRank(c2)),
              BytesCmp(c1.name, c2.name))

RECURSIVE ComponentsCmp(_, _)
\* Iterator::cmp over the two component sequences
ComponentsCmp(p, q) ==
    IF p = <<>> THEN (IF q = <<>> THEN "Equal" ELSE "Less")
    ELSE IF q = <<>> THEN "Greater"
    ELSE then_with(ComponentCmp(Head(p), Head(q)),
                   ComponentsCmp(Tail(p), Tail(q)))

\* Path::new(f).cmp(Path::new(g))
PathCmp(f, g) == ComponentsCmp(components(f), components(g))

----------------------------------------------------------------------------
(* impl Ord for Annotation *)

\* a comparator that drops the final kind tie-break
cmp_without_kind(a, b) ==
    then_with(PathCmp(a.file, b.file),
    then_with(IntCmp(a.line, b.line),
              OptCmp(a.col, b.col)))

\* a comparator that sorts the lower severity first
cmp_kind_ascending(a, b) ==
    then_with(PathCmp(a.file, b.file),
    then_with(IntCmp(a.line, b.line),
    then_with(OptCmp(a.col, b.col),
              KindCmp(a.kind, b.kind))))

cmp(a, b) ==
    then_with(PathCmp(a.file, b.file),
    then_with(IntCmp(a.line, b.line),
    then_with(OptCmp(a.col, b.col),
              reverse(KindCmp(a.kind, b.kind)))))

\* BTreeSet::insert: the set with a added, unless it holds an element that
\* compares Equal to a
BTreeInsertAccepts(set, a) == \A b \in set : cmp(a, b) # "Equal"

BTreeInsert(set, a) == IF BTreeInsertAccepts(set, a) THEN set \cup {a} ELSE set

----------------------------------------------------------------------------
(* Text operations of impl Display for Annotation *)

\* char::is_whitespace, on the characters the model uses
is_whitespace(c) == c \in {" ", "\n", "\r"}

RECURSIVE trim_start(_)
trim_start(s) ==
    IF s # <<>> /\ is_whitespace(Head(s)) THEN trim_start(Tail(s)) ELSE s

RECURSIVE trim_end(_)
trim_end(s) ==
    IF s # <<>> /\ is_whitespace(s[Len(s)])
    THEN trim_end(SubSeq(s, 1, Len(s) - 1))
    ELSE s

\* str::trim
trim(s) == trim_end(trim_start(s))

RECURSIVE replace(_, _, _)
\* str::replace(from: char, to: &str): one left-to-right pass
replace(s, from, to) ==
    IF s = <<>> THEN <<>>
    ELSE (IF Head(s) = from THEN to ELSE <<Head(s)>>)
         \o replace(Tail(s), from, to)

Pct25 == <<"%", "2", "5">>
Pct0A == <<"%", "0", "A">>
Pct0D == <<"%", "0", "D">>

\* the encoding with the newline and carriage-return passes before the "%" pass
message_segment_percent_last(message) ==
    replace(replace(replace(trim(message), "\n", Pct0A), "\r", Pct0D),
            "%", Pct25)

\* the message segment written after the second "::"
message_segment(message) ==
    replace(replace(replace(trim(message), "%", Pct25), "\n", Pct0A),
            "\r", Pct0D)

RECURSIVE text(_)
\* the string a sequence of text pieces spells
text(pieces) == IF pieces = <<>> THEN "" ELSE Head(pieces) \o text(Tail(pieces))

\* impl Display for Annotation: the pieces written, in order
fmt_pieces(a) ==
    <<"::", KindSerialize(a.kind), " file=">> \o a.file
    \o <<",line=", ToString(a.line)>>
    \o (IF a.end_line # None THEN <<",endLine=", ToString(a.end_line[1])>> ELSE <<>>)
    \o (IF a.col # None
        THEN <<",col=", ToString(a.col[1])>>
             \o (IF a.end_column # None
                 THEN <<",endColumn=", ToString(a.end_column[1])>>
                 ELSE <<>>)
        ELSE <<>>)
    \o (IF a.title # None THEN <<",title=">> \o a.title[1] ELSE <<>>)
    \o <<"::">> \o message_segment(a.message)

fmt(a) == text(fmt_pieces(a))

----------------------------------------------------------------------------
(* impl TryFrom<CargoMessage> for Annotation, and Summary::from *)

PrimaryIndexes(spans) == {i \in 1..Len(spans) : spans[i].is_primary}

\* the last primary span instead of the first
find_last_primary(spans) ==
    IF PrimaryIndexes(spans) = {} THEN None
    ELSE Some(spans[CHOOSE i \in PrimaryIndexes(spans) :
                        \A j \in PrimaryIndexes(spans) : j <= i])

\* message.spans.iter().find(|span| span.is_primary)
find_primary(spans) ==
    IF PrimaryIndexes(spans) = {} THEN None
    ELSE Some(spans[CHOOSE i \in PrimaryIndexes(spans) :
                        \A j \in PrimaryIndexes(spans) : i <= j])

\* Result<Annotation, &str>: Ok as Some(annotation), Err as None
try_from(message) ==
    LET primary_span == find_primary(message.spans)
    IN  IF primary_span = None THEN None
        ELSE Some([kind |-> KindFrom(message.level),
                   file |-> primary_span[1].file_name,
                   line |-> primary_span[1].line_start,
                   end_line |-> Some(primary_span[1].line_end),
                   col |-> Some(primary_span[1].column_start),
                   end_column |-> Some(primary_span[1].column_end),
                   title |-> IF message.rendered # None
                             THEN Some(message.message) ELSE None,
                   message |-> IF message.rendered # None
                               THEN message.rendered[1] ELSE message.message])

\* impl From<&Diagnostic> for Summary
SummaryFrom(message) ==
    LET primary_span ==
            IF PrimaryIndexes(message.spans) = {} THEN None
            ELSE Some(message.spans[CHOOSE i \in PrimaryIndexes(message.spans) :
                          \A j \in PrimaryIndexes(message.spans) : i <= j])
    IN  [level |-> message.level,
         message |-> message.message,
         location |-> IF primary_span = None THEN None
                      ELSE Some(<<primary_span[1].file_name,
                                  primary_span[1].line_start>>)]

----------------------------------------------------------------------------
(* write_summaries and write_diagnostic_summary *)

RECURSIVE count_kinds(_, _)
\* the kind_count map after the loop over the diagnostics
count_kinds(diagnostics, kind_count) ==
    IF diagnostics = <<>> THEN kind_count
    ELSE LET kind == KindFrom(Head(diagnostics).level)
         IN  count_kinds(Tail(diagnostics),
                         [kind_count EXCEPT ![kind] = @ + 1])

\* the backtick of the location format (a TLA+ string cannot hold one)
Backtick == "'"

\* one table row: "|{kind}|{message}|{location}|"
table_row(summary) ==
    LET kind == KindFrom(summary.level)
        location == IF summary.location = None THEN ""
                    ELSE Backtick \o text(summary.location[1][1]) \o ":"
                         \o ToString(summary.location[1][2]) \o Backtick
    IN  "|" \o KindDisplay(kind) \o "|" \o text(summary.message)
        \o "|" \o location \o "|"

\* the totals line with the Warning and Error counts exchanged
totals_line_swapped(kind_count) ==
    "> **TOTAL:** "
    \o ToString(kind_count["Warning"]) \o " " \o KindDisplay("Error") \o "s, "
    \o ToString(kind_count["Error"]) \o " " \o KindDisplay("Warning") \o "s, "
    \o ToString(kind_count["Notice"]) \o " " \o KindDisplay("Notice") \o "s"

\* "> **TOTAL:** {} {}s, {} {}s, {} {}s"
totals_line(kind_count) ==
    "> **TOTAL:** "
    \o ToString(kind_count["Error"]) \o " " \o KindDisplay("Error") \o "s, "
    \o ToString(kind_count["Warning"]) \o " " \o KindDisplay("Warning") \o "s, "
    \o ToString(kind_count["Notice"]) \o " " \o KindDisplay("Notice") \o "s"

table_rows(diagnostics) ==
    [i \in DOMAIN diagnostics |-> table_row(diagnostics[i])]

\* the lines write_diagnostic_summary writes to the file
write_diagnostic_summary(diagnostics) ==
    LET kind_count == count_kinds(diagnostics, [k \in AnnotationKinds |-> 0])
    IN  <<"# Diagnostics", totals_line(kind_count), "",
          "|Level|Message|Location|", "|:--|:--|--:|">>
        \o table_rows(diagnostics)

\* the file write_summaries leaves: None when no path is resolved
write_summaries(sums, dest) ==
    IF ~dest THEN None
    ELSE IF sums = <<>> THEN Some(<<>>)
    ELSE Some(write_diagnostic_summary(sums))

----------------------------------------------------------------------------
(* The lines cargo may print: a catalogue the driver's input is drawn from *)

LibRs == <<"s", "r", "c", "/", "l", "i", "b", ".", "r", "s">>
ARs == <<"a", ".", "r", "s">>
BRs == <<"b", ".", "r", "s">>
UnusedVariable ==
    <<"u", "n", "u", "s", "e", "d", " ", "v", "a", "r", "i", "a", "b", "l", "e">>
DeadCode == <<"d", "e", "a", "d">>
Rendered50 == <<"5", "0", "%", "\n">>

Span(file, ls, le, cs, ce, primary) ==
    [file_name |-> file, line_start |-> ls, line_end |-> le,
     column_start |-> cs, column_end |-> ce, is_primary |-> primary]

Diag(msg, level, spans, rendered) ==
    [message |-> msg, level |-> level, spans |-> spans, rendered |-> rendered]

NoDiag == Diag(<<>>, "note", <<>>, None)

\* a line of cargo.stdout: whether its bytes are UTF-8, whether it is JSON,
\* its "reason" tag, whether its "message" has the Diagnostic shape, and the
\* Diagnostic it then decodes to
Line(utf8, json, reason, shape, message) ==
    [utf8 |-> utf8, json |-> json, reason |-> reason, shape |-> shape,
     message |-> message]

CompilerMessage(d) == Line(TRUE, TRUE, "compiler-message", TRUE, d)

PrimaryLib == Span(LibRs, 10, 10, 5, 8, TRUE)

Lines ==
    << Line(FALSE, FALSE, "", FALSE, NoDiag),
       Line(TRUE, FALSE, "", FALSE, NoDiag),
       Line(TRUE, TRUE, "compiler-artifact", FALSE, NoDiag),
       Line(TRUE, TRUE, "compiler-message", FALSE, NoDiag),
       CompilerMessage(Diag(UnusedVariable, "warning", <<PrimaryLib>>, None)),
       CompilerMessage(Diag(DeadCode, "warning", <<PrimaryLib>>, None)),
       CompilerMessage(Diag(UnusedVariable, "error", <<PrimaryLib>>, None)),
       CompilerMessage(Diag(DeadCode, "error: internal compiler error",
                            << Span(BRs, 1, 1, 1, 2, FALSE),
                               Span(ARs, 3, 4, 1, 2, TRUE),
                               PrimaryLib >>,
                            Some(Rendered50))),
       CompilerMessage(Diag(DeadCode, "error",
                            <<Span(BRs, 1, 1, 1, 2, FALSE)>>, None)),
       CompilerMessage(Diag(DeadCode, "help",
                            <<Span(ARs, 1, 1, 1, 2, TRUE)>>, None)) >>

\* serde_json::from_str::<CargoMessage>: Ok as Some(diagnostic), Err as None
from_str(line) ==
    IF line.json /\ line.reason = "compiler-message" /\ line.shape
    THEN Some(line.message)
    ELSE None

----------------------------------------------------------------------------
(* fn main *)

\* the threshold taken the other way round
annotation_threshold_swapped(allow) == IF allow THEN "Warning" ELSE "Error"

annotation_threshold(allow) == IF allow THEN "Error" ELSE "Warning"

\* the exit code of main once write_summaries has returned
exit_code_of(max_kind, threshold) ==
    IF KindCmp(max_kind, threshold) # "Less" THEN "FAILURE" ELSE "SUCCESS"

\* the state the harness variables keep while main runs
HarnessIdle ==
    /\ r_msg = <<>> /\ r_out = None
    /\ c_a = None /\ c_b = None /\ c_ord = None

MainInit ==
    /\ pc = "start"
    /\ allow_warnings \in BOOLEAN
    /\ summary_dest \in BOOLEAN
    /\ lines_read = <<>>
    /\ annotations = {}
    /\ stdout = <<>>
    /\ summaries = <<>>
    /\ max_annotation = "Notice"
    /\ summary_file = None
    /\ exit_code = "NONE"
    /\ last_inserted = None

Init == MainInit /\ HarnessIdle

\* cli.invoke_cargo() returns the output of cargo
InvokeCargo ==
    /\ pc = "start"
    /\ pc' = "reading"
    /\ UNCHANGED <<allow_warnings, summary_dest, lines_read, annotations, stdout,
                   summaries, max_annotation, summary_file, exit_code,
                   last_inserted>>
    /\ UNCHANGED <<renderVars, cmpVars>>

\* cli.invoke_cargo() fails: expect("Cargo invocation failed") panics
InvokeCargoFails ==
    /\ pc = "start"
    /\ pc' = "panicked"
    /\ exit_code' = "PANIC"
    /\ UNCHANGED <<allow_warnings, summary_dest, lines_read, annotations, stdout,
                   summaries, max_annotation, summary_file, last_inserted>>
    /\ UNCHANGED <<renderVars, cmpVars>>

\* a driver that pushes the summary of every annotation it builds
push_summary_always(sums, summary, inserted) == Append(sums, summary)

\* summaries.push(summary), inside `if annotations.insert(..)`
push_summary(sums, summary, inserted) ==
    IF inserted THEN Append(sums, summary) ELSE sums

\* one iteration of the loop over the lines of cargo.stdout
ProcessLine(l) ==
    /\ pc = "reading"
    /\ Len(lines_read) < MaxLines
    /\ lines_read' = Append(lines_read, l)
    /\ IF ~Lines[l].utf8
       THEN \* line.unwrap() panics on a line that is not UTF-8
            /\ pc' = "panicked"
            /\ exit_code' = "PANIC"
            /\ last_inserted' = None
            /\ UNCHANGED <<annotations, stdout, summaries, max_annotation>>
       ELSE LET message == from_str(Lines[l])
                summary == SummaryFrom(message[1])
                annotation == try_from(message[1])
                inserted == BTreeInsertAccepts(annotations, annotation[1])
            IN  /\ pc' = "reading"
                /\ exit_code' = exit_code
                /\ IF message # None /\ annotation # None
                   THEN /\ last_inserted' = Some([annotation |-> annotation[1],
                                                  inserted |-> inserted])
                        /\ annotations' = BTreeInsert(annotations, annotation[1])
                        /\ stdout' = IF inserted
                                     THEN Append(stdout, fmt(annotation[1]))
                                     ELSE stdout
                        /\ max_annotation' =
                               IF inserted
                               THEN KindMax(max_annotation, annotation[1].kind)
                               ELSE max_annotation
                        /\ summaries' = push_summary(summaries, summary, inserted)
                   ELSE /\ last_inserted' = None
                        /\ UNCHANGED <<annotations, stdout, summaries,
                                       max_annotation>>
    /\ UNCHANGED <<allow_warnings, summary_dest, summary_file>>
    /\ UNCHANGED <<renderVars, cmpVars>>

\* end of the stream: write_summaries returns Ok and main returns its ExitCode
Finish ==
    /\ pc = "reading"
    /\ summary_file' = write_summaries(summaries, summary_dest)
    /\ exit_code' = exit_code_of(max_annotation,
                                  annotation_threshold(allow_warnings))
    /\ pc' = "done"
    /\ last_inserted' = None
    /\ UNCHANGED <<allow_warnings, summary_dest, lines_read, annotations, stdout,
                   summaries, max_annotation>>
    /\ UNCHANGED <<renderVars, cmpVars>>

\* end of the stream: the summary file cannot be created or written, and
\* write_summaries(summaries).unwrap() panics
FinishSummaryFails ==
    /\ pc = "reading"
    /\ summary_dest
    /\ pc' = "panicked"
    /\ exit_code' = "PANIC"
    /\ last_inserted' = None
    /\ UNCHANGED <<allow_warnings, summary_dest, lines_read, annotations, stdout,
                   summaries, max_annotation, summary_file>>
    /\ UNCHANGED <<renderVars, cmpVars>>

Next ==
    \/ InvokeCargo
    \/ InvokeCargoFails
    \/ \E l \in DOMAIN Lines : ProcessLine(l)
    \/ Finish
    \/ FinishSummaryFails

Spec == Init /\ [][Next]_vars

----------------------------------------------------------------------------
(* Properties of the run driver, checked under Spec *)

\* the diagnostic a consumed line decodes to, or None
DiagOfLine(l) ==
    IF Lines[l].utf8 /\ Lines[l].json /\ Lines[l].reason = "compiler-message"
       /\ Lines[l].shape
    THEN Some(Lines[l].message)
    ELSE None

HasPrimary(d) == \E i \in DOMAIN d.spans : d.spans[i].is_primary

\* positions of the consumed lines that carry a diagnostic with a primary span
Located == {k \in DOMAIN lines_read :
              /\ DiagOfLine(lines_read[k]) # None
              /\ HasPrimary(DiagOfLine(lines_read[k])[1])}

\* the annotation built from the line consumed at position k (k \in Located)
AnnotationAt(k) == try_from(DiagOfLine(lines_read[k])[1])[1]

\* positions at which a structurally new annotation arrives
FirstOccurrences ==
    {k \in Located : \A j \in Located : j < k => AnnotationAt(j) # AnnotationAt(k)}

\* C1: BTreeSet::insert returns false only for an annotation structurally
\* equal, in every field, to one inserted earlier; annotations that differ in
\* any field are both accepted and both emitted.
C1_InsertRejectsOnlyStructuralDuplicates ==
    /\ (last_inserted # None /\ ~last_inserted[1].inserted)
          => \E k \in Located : /\ k < Len(lines_read)
                                /\ AnnotationAt(k) = last_inserted[1].annotation
    /\ \A k \in Located : AnnotationAt(k) \in annotations

\* C2: once main returns, the run is reported failed exactly when
\* max_annotation >= threshold: Warning fails by default and passes when
\* warnings are allowed, Notice always passes, Error always fails.
C2_ExitStatus ==
    pc = "done" =>
        /\ exit_code \in {"SUCCESS", "FAILURE"}
        /\ (max_annotation = "Error" => exit_code = "FAILURE")
        /\ (max_annotation = "Notice" => exit_code = "SUCCESS")
        /\ (max_annotation = "Warning" /\ ~allow_warnings => exit_code = "FAILURE")
        /\ (max_annotation = "Warning" /\ allow_warnings => exit_code = "SUCCESS")
        /\ (stdout = <<>> => exit_code = "SUCCESS")

C2_Witness ==
    /\ pc = "done"
    /\ max_annotation = "Warning"
    /\ allow_warnings
    /\ exit_code = "SUCCESS"
    /\ stdout # <<>>

\* C3: every structurally distinct annotation is emitted exactly once, when
\* its first occurrence is processed, and the emitted lines are in arrival
\* order of first occurrence.
C3_EachDistinctAnnotationEmittedOnce ==
    /\ Len(stdout) = Cardinality(FirstOccurrences)
    /\ \A i \in DOMAIN stdout :
          \E k \in FirstOccurrences :
             /\ Cardinality({j \in FirstOccurrences : j <= k}) = i
             /\ stdout[i] = fmt(AnnotationAt(k))

\* C4: a line that is not a decodable compiler-message envelope is dropped
\* without effect and is never fatal: the set, the output, the summaries and
\* max_annotation are unchanged and the driver keeps reading.
C4_UndecodableLineIsSkipped ==
    [][(/\ pc = "reading"
        /\ lines_read' # lines_read
        /\ DiagOfLine(lines_read'[Len(lines_read')]) = None)
       => (/\ UNCHANGED <<annotations, stdout, summaries, max_annotation>>
           /\ pc' = "reading")]_vars

\* C5: the annotation takes file, line, end_line, col and end_column from the
\* first primary span in span order; a diagnostic with no primary span
\* changes nothing and the driver keeps reading.
C5_FirstPrimarySpan ==
    [][(/\ pc = "reading"
        /\ lines_read' # lines_read
        /\ DiagOfLine(lines_read'[Len(lines_read')]) # None)
       => LET d == DiagOfLine(lines_read'[Len(lines_read')])[1]
          IN  /\ pc' = "reading"
              /\ ~HasPrimary(d) =>
                    /\ UNCHANGED <<annotations, stdout, summaries, max_annotation>>
                    /\ last_inserted' = None
              /\ \A i \in DOMAIN d.spans :
                    (/\ d.spans[i].is_primary
                     /\ \A j \in 1..(i - 1) : ~d.spans[j].is_primary)
                    => /\ last_inserted' # None
                       /\ last_inserted'[1].annotation.file = d.spans[i].file_name
                       /\ last_inserted'[1].annotation.line = d.spans[i].line_start
                       /\ last_inserted'[1].annotation.end_line
                              = Some(d.spans[i].line_end)
                       /\ last_inserted'[1].annotation.col
                              = Some(d.spans[i].column_start)
                       /\ last_inserted'[1].annotation.end_column
                              = Some(d.spans[i].column_end)]_vars

\* a diagnostic without a primary span was skipped, then one whose primary
\* span is its second of three spans was annotated at that span
C5_Witness ==
    /\ pc = "reading"
    /\ Len(lines_read) = 2
    /\ DiagOfLine(lines_read[1]) # None
    /\ ~HasPrimary(DiagOfLine(lines_read[1])[1])
    /\ last_inserted # None
    /\ last_inserted[1].annotation.file = ARs
    /\ last_inserted[1].annotation.line = 3
    /\ Len(stdout) = 1

\* C6: a Summary is accumulated exactly when a new annotation was inserted:
\* the summaries, the emitted lines and the set have the same size, the i-th
\* summary and the i-th emitted line come from one diagnostic, and the table
\* has one row per summary, in accumulation order.
C6_SummariesFollowInsertions ==
    /\ Len(summaries) = Len(stdout)
    /\ Len(summaries) = Cardinality(annotations)
    /\ \A i \in DOMAIN summaries :
          \E k \in Located :
             LET d == DiagOfLine(lines_read[k])[1]
             IN  /\ summaries[i].level = d.level
                 /\ summaries[i].message = d.message
                 /\ summaries[i].location # None
                 /\ stdout[i] = fmt(AnnotationAt(k))
                 /\ AnnotationAt(k).file = summaries[i].location[1][1]
                 /\ AnnotationAt(k).line = summaries[i].location[1][2]
    /\ (pc = "done" /\ summary_file # None /\ summaries # <<>>)
          => /\ Len(summary_file[1]) = 5 + Len(summaries)
             /\ \A i \in DOMAIN summaries :
                   summary_file[1][5 + i] =
                       "|" \o emoji(KindFrom(summaries[i].level)) \o " "
                       \o KindFrom(summaries[i].level) \o "|"
                       \o text(summaries[i].message) \o "|" \o Backtick
                       \o text(summaries[i].location[1][1]) \o ":"
                       \o ToString(summaries[i].location[1][2]) \o Backtick \o "|"

\* a duplicate was absorbed without a summary, and the table of two
\* summaries was written
C6_Witness ==
    /\ pc = "done"
    /\ summary_file # None
    /\ Len(summaries) = 2
    /\ Cardinality(Located) = 3
    /\ summaries[1].level # summaries[2].level

\* number of accumulated summaries whose level classifies to kind k
SummariesOfKind(k) ==
    Cardinality({i \in DOMAIN summaries : KindFrom(summaries[i].level) = k})

\* the label of a count as the claim words it: plural unless the count is 1
PluralByCount(label, n) == IF n = 1 THEN label ELSE label \o "s"

WarningTwice == lines_read = <<5, 5>>

\* C8 as stated: each label is pluralized according to its count, and the run
\* that accumulates exactly one Warning (the same warning line fed twice)
\* reads `0 Errors, 1 Warning, 0 Notices`, with or without the kind's emoji.
C8_TotalsPluralizedByCount ==
    (pc = "done" /\ summary_file # None /\ WarningTwice)
       => \/ summary_file[1][2] = "> **TOTAL:** 0 Errors, 1 Warning, 0 Notices"
          \/ summary_file[1][2] = "0 Errors, 1 Warning, 0 Notices"
          \/ summary_file[1][2] =
                "> **TOTAL:** "
                \o "0 " \o PluralByCount(":x: Error", 0) \o ", "
                \o "1 " \o PluralByCount(":warning: Warning", 1) \o ", "
                \o "0 " \o PluralByCount(":information_source: Notice", 0)

\* C8, amended: the totals line gives, for Error, Warning and Notice in that
\* order, the number of accumulated summaries of that kind, each followed by
\* the kind's emoji and name with an "s" appended whatever the count; the run
\* that accumulates exactly one Warning has one row and reads
\* `0 :x: Errors, 1 :warning: Warnings, 0 :information_source: Notices`.
C8_TotalsAlwaysPlural ==
    (pc = "done" /\ summary_file # None /\ summaries # <<>>)
       => /\ summary_file[1][2] =
                "> **TOTAL:** "
                \o ToString(SummariesOfKind("Error")) \o " :x: Errors, "
                \o ToString(SummariesOfKind("Warning")) \o " :warning: Warnings, "
                \o ToString(SummariesOfKind("Notice"))
                \o " :information_source: Notices"
          /\ WarningTwice =>
                /\ Len(summary_file[1]) = 6
                /\ summary_file[1][2] =
                      "> **TOTAL:** 0 :x: Errors, 1 :warning: Warnings, 0 :information_source: Notices"

C8_Witness ==
    /\ pc = "done"
    /\ summary_file # None
    /\ WarningTwice
    /\ Len(summaries) = 1

\* kinds of all consumed diagnostics that have a primary span
LocatedKinds == {KindFrom(DiagOfLine(lines_read[k])[1].level) : k \in Located}

\* C10: deduplication never hides severity: max_annotation is the maximum of
\* Notice and the kinds of all consumed diagnostics with a primary span, an
\* absorbed annotation has the kind of one already in the set, max_annotation
\* never decreases, and the exit status is decided by the set of consumed
\* diagnostics alone.
C10_DedupNeverHidesSeverity ==
    /\ [](/\ max_annotation \in LocatedKinds \cup {"Notice"}
          /\ \A k \in LocatedKinds : KindRank(k) <= KindRank(max_annotation)
          /\ (last_inserted # None /\ ~last_inserted[1].inserted)
                => \E b \in annotations : b.kind = last_inserted[1].annotation.kind
          /\ pc = "done"
                => (exit_code = "FAILURE"
                      <=> \E k \in LocatedKinds :
                             KindRank(k) >= KindRank(IF allow_warnings
                                                      THEN "Error" ELSE "Warning")))
    /\ [][KindRank(max_annotation') >= KindRank(max_annotation)]_vars

\* an Error diagnostic was absorbed as a duplicate while max_annotation is Error
C10_Witness ==
    /\ last_inserted # None
    /\ ~last_inserted[1].inserted
    /\ last_inserted[1].annotation.kind = "Error"
    /\ max_annotation = "Error"
    /\ Len(lines_read) = 3

----------------------------------------------------------------------------
(* Rendering harness: impl Display for Annotation applied to every message *)
(* of at most MaxMsgLen characters over RenderAlphabet                     *)

RenderAlphabet == {"%", "\n", "\r", " ", "5", "0"}

Texts(alphabet, n) == UNION {[1..k -> alphabet] : k \in 0..n}

\* the state the driver's variables keep while a harness runs
MainIdle ==
    /\ pc = "idle"
    /\ allow_warnings = FALSE
    /\ summary_dest = FALSE
    /\ lines_read = <<>>
    /\ annotations = {}
    /\ stdout = <<>>
    /\ summaries = <<>>
    /\ max_annotation = "Notice"
    /\ summary_file = None
    /\ exit_code = "NONE"
    /\ last_inserted = None

\* the annotation of a warning at a.rs:1:1 that carries the message
RenderSubject(message) ==
    [kind |-> "Warning", file |-> ARs, line |-> 1, end_line |-> Some(1),
     col |-> Some(1), end_column |-> Some(2), title |-> None,
     message |-> message]

RenderInit ==
    /\ MainIdle
    /\ r_msg \in Texts(RenderAlphabet, MaxMsgLen)
    /\ r_out = None
    /\ c_a = None /\ c_b = None /\ c_ord = None

Render ==
    /\ r_out = None
    /\ r_out' = Some(fmt(RenderSubject(r_msg)))
    /\ UNCHANGED <<r_msg, mainVars, cmpVars>>

RenderNext == Render

SpecRender == RenderInit /\ [][RenderNext]_vars

RenderPrefix == "::warning file=a.rs,line=1,endLine=1,col=1,endColumn=2::"

\* the encoding of one character
EncodeChar(c) ==
    CASE c = "%" -> "%25"
      [] c = "\n" -> "%0A"
      [] c = "\r" -> "%0D"
      [] OTHER -> c

\* every character of s encoded once, none encoded twice
EncodeEach(s) == text([i \in DOMAIN s |-> EncodeChar(s[i])])

\* s without its leading and trailing whitespace
Trimmed(s) ==
    LET keep == {i \in DOMAIN s : s[i] \notin {" ", "\n", "\r"}}
    IN  IF keep = {} THEN <<>>
        ELSE SubSeq(s, CHOOSE i \in keep : \A j \in keep : i <= j,
                       CHOOSE i \in keep : \A j \in keep : j <= i)

\* C7 as stated: the message segment is the message with "%", newline and
\* carriage return each encoded once, and the message "50%\n" renders the
\* segment "50%25%0A".
C7_SegmentEncodesWholeMessage ==
    r_out # None =>
        /\ r_out[1] = RenderPrefix \o EncodeEach(r_msg)
        /\ r_msg = Rendered50 => r_out[1] = RenderPrefix \o "50%25%0A"

\* C7, amended: the message is trimmed of leading and trailing whitespace
\* first, then "%", newline and carriage return are each encoded once ("%"
\* before the other two, so no inserted "%" is encoded again); the message
\* "50%\n" renders the segment "50%25", and "5%\n0" renders "5%25%0A0".
C7_SegmentEncodesTrimmedMessage ==
    r_out # None =>
        /\ r_out[1] = RenderPrefix \o EncodeEach(Trimmed(r_msg))
        /\ r_msg = Rendered50 => r_out[1] = RenderPrefix \o "50%25"
        /\ r_msg = <<"5", "%", "\n", "0">> => r_out[1] = RenderPrefix \o "5%25%0A0"

C7_Witness ==
    /\ r_out # None
    /\ r_msg = Rendered50
    /\ r_out[1] = RenderPrefix \o "50%25"

----------------------------------------------------------------------------
(* Comparator harness: Annotation::cmp applied to every pair of annotations *)
(* over CmpFiles, lines 1..MaxLineNo and columns None, 1..MaxColNo          *)

CmpFiles ==
    { <<"a">>, <<"a", "/", "b">>, <<"a", "/", "/", "b">>, <<"a", "-", "b">> }

CmpAnnotations ==
    [kind : AnnotationKinds,
     file : CmpFiles,
     line : 1..MaxLineNo,
     end_line : {None},
     col : {None} \cup {Some(n) : n \in 1..MaxColNo},
     end_column : {None},
     title : {None},
     message : {<<"a">>}]

CmpInit ==
    /\ MainIdle
    /\ r_msg = <<>> /\ r_out = None
    /\ c_a \in {Some(a) : a \in CmpAnnotations}
    /\ c_b \in {Some(b) : b \in CmpAnnotations}
    /\ c_ord = None

Compare ==
    /\ c_ord = None
    /\ c_ord' = Some(cmp(c_a[1], c_b[1]))
    /\ UNCHANGED <<c_a, c_b, mainVars, renderVars>>

CmpNext == Compare

SpecCmp == CmpInit /\ [][CmpNext]_vars

\* p sorts strictly before q in the lexicographic order of path components
PathBefore(p, q) ==
    \E k \in 1..(Len(p) + 1) :
       /\ k <= Len(q) + 1
       /\ \A j \in 1..(k - 1) : p[j] = q[j]
       /\ \/ k = Len(p) + 1 /\ k <= Len(q)
          \/ k <= Len(p) /\ k <= Len(q) /\ ComponentCmp(p[k], q[k]) = "Less"

\* the order the documented chain file -> line -> col gives two annotations
\* whose files (as paths), lines or columns differ
ChainOrder(a, b) ==
    IF components(a.file) # components(b.file)
    THEN (IF PathBefore(components(a.file), components(b.file))
          THEN "Less" ELSE "Greater")
    ELSE IF a.line # b.line
    THEN (IF a.line < b.line THEN "Less" ELSE "Greater")
    ELSE IF a.col = None \/ (b.col # None /\ a.col[1] < b.col[1])
    THEN "Less" ELSE "Greater"

\* C9 as stated: two annotations whose (file, line, col) differ never compare
\* Equal.
C9_DifferentKeysNeverEqual ==
    (/\ c_ord # None
     /\ \/ c_a[1].file # c_b[1].file
        \/ c_a[1].line # c_b[1].line
        \/ c_a[1].col # c_b[1].col)
    => c_ord[1] # "Equal"

\* C9, amended: two annotations whose files differ as paths (as sequences of
\* path components: "a//b" and "a/b" are one key), or whose line or col differ, never
\* compare Equal and are ordered by file path (lexicographic), then line
\* ascending, then col ascending with None before Some; with equal path, line
\* and col the higher-severity kind sorts first; the comparator is
\* antisymmetric and transitive.
C9_ComparatorChain ==
    c_ord # None =>
        LET a == c_a[1]
            b == c_b[1]
            same_key == /\ components(a.file) = components(b.file)
                        /\ a.line = b.line
                        /\ a.col = b.col
        IN  /\ ~same_key => c_ord[1] = ChainOrder(a, b)
            /\ same_key =>
                  /\ (c_ord[1] = "Less" <=> KindRank(a.kind) > KindRank(b.kind))
                  /\ (c_ord[1] = "Equal" <=> a.kind = b.kind)
            /\ c_ord[1] = "Less" <=> cmp(b, a) = "Greater"
            /\ c_ord[1] = "Equal" <=> cmp(b, a) = "Equal"
            /\ \A c \in CmpAnnotations :
                  /\ (c_ord[1] = "Less" /\ cmp(b, c) # "Greater")
                        => cmp(a, c) = "Less"
                  /\ (c_ord[1] = "Equal" /\ cmp(b, c) = "Equal")
                        => cmp(a, c) = "Equal"

\* "a//b" against "a/b" at the same line and column: Error sorts before Warning
C9_Witness ==
    /\ c_ord = Some("Less")
    /\ c_a[1].file = <<"a", "/", "/", "b">>
    /\ c_b[1].file = <<"a", "/", "b">>
    /\ c_a[1].line = c_b[1].line
    /\ c_a[1].col = c_b[1].col
    /\ c_a[1].kind = "Error"
    /\ c_b[1].kind = "Warning"

====
